---- MODULE Spec2Model ----
(***************************************************************************)
(* A model of src/backend/stream.rs (cubeb-pulse-rs): the Stream engine    *)
(* that bridges an application data callback to a PulseAudio connection.   *)
(*                                                                         *)
(* Two threads act on one Stream:                                          *)
(*   - the application thread, which runs Stream::new and then calls       *)
(*     start, stop and finally drops the stream (Drop -> destroy);         *)
(*   - the threaded mainloop's thread, which delivers the registered       *)
(*     callbacks (check_error, read_data, write_data, output_preroll,      *)
(*     drained_cb, stream_success) while holding the mainloop lock.        *)
(*                                                                         *)
(* The PulseAudio library and server are the environment: they decide when *)
(* a stream becomes ready or fails, when an operation is acknowledged,     *)
(* how many bytes are requested or delivered, and the size of each write   *)
(* grant.  The application decides what the data callback returns.         *)
(*                                                                         *)
(* Environment assumptions, stated here once:                              *)
(*   - a sub-stream that reached Ready stays good (no transport failure    *)
(*     after construction);                                                *)
(*   - a record stream delivers data only while it is uncorked; write      *)
(*     requests may arrive whenever the playback stream is connected;      *)
(*   - begin_write grants a non-empty whole number of frames, at most the  *)
(*     number asked for; fragments are whole frames;                       *)
(*   - read_from_input fails (ending read_data's loop) once the record     *)
(*     buffer holds no more fragments;                                     *)
(*   - the data callback returns a negative value or 0..frames offered     *)
(*     (any value other than the offered count on an input-only stream);   *)
(*   - one application thread calls the public operations, one at a time.  *)
(***************************************************************************)
EXTENDS Integers, Sequences, FiniteSets, TLC

(* ------------------------------ bounds --------------------------------- *)
\* number of start/stop calls the application makes before dropping the stream
MaxCalls == 3
\* largest write request / input fragment, in frames
MaxFrames == 2
\* largest number of fragments one read-ready event finds in the record buffer
MaxChunks == 2
\* gains n/1 and n/2 for n up to MaxGain are tried by set_volume
MaxGain == 3
\* samples of magnitude up to MaxSample (and the two extremes of i16) are
\* scaled
MaxSample == 3
\* latencies up to MaxLatency frames (and three large ones) are asked for
MaxLatency == 5
\* device selectors point at one of MaxDevices device names, or are null
MaxDevices == 2

(* --------------------------- program constants ------------------------- *)
STATE_STARTED == "STARTED"
STATE_STOPPED == "STOPPED"
STATE_DRAINED == "DRAINED"
STATE_ERROR == "ERROR"

OK == "OK"
ERROR == "ERROR"
ERROR_INVALID_FORMAT == "ERROR_INVALID_FORMAT"

NULL == 0

\* const PULSE_NO_GAIN: f32 = -1.0 (a gain is the fraction num/den)
PULSE_NO_GAIN == [num |-> -1, den |-> 1]

\* the width of i16, the type of a PA_SAMPLE_S16 sample
I16Bits == 16
\* the width of u32, the type of latency_frames and of pa_buffer_attr's fields
U32Bits == 32

SupportedFormats == {"S16LE", "S16BE", "FLOAT32LE", "FLOAT32BE"}

\* Option<cubeb::StreamParams>::None: the direction is not requested
NoParams == [format |-> "none", channels |-> 0]

\* the Option<cubeb::StreamParams> values the construction is tried with
ParamChoices ==
    {NoParams} \cup
    [format : {"S16LE", "INVALID"}, channels : {1, 2}]

VARIABLES
    \* arguments of Stream::new
    output_stream_params, input_stream_params,
    \* fields of struct Stream
    output_stream,          \* "null" or "set": the pulse::Stream handle
    input_stream,
    drain_timer,            \* NULL or the id of a time event
    output_sample_spec,     \* [format, channels]
    input_sample_spec,
    shutdown,
    state,
    \* the library's side of the two pulse::Stream objects
    pa_out, pa_in,
    \* the asynchronous operation the application thread waits on
    op,
    \* the threaded mainloop
    lock,                   \* "free", "app" or "loop"
    deferred,               \* pending once(output_preroll) events
    timers,                 \* time events allocated and not yet fired or freed
    next_timer,             \* id the next rttime_new returns
    \* the two threads
    app,                    \* application thread: position and locals
    loop,                   \* mainloop thread: callback in progress and locals
    \* observation (history) variables
    reports,                \* states passed to the state callback, in order
    calls,                  \* public operations called, in order
    last,                   \* what the latest step did
    \* the arithmetic of the engine, taken on its own (CalcSpec)
    volume,                 \* Stream::volume, a fraction [num, den]
    produced,               \* the samples the data callback left in the region
    buffer,                 \* the region as it is handed to pulse::Stream::write
    latency_frames,         \* argument of set_buffering_attribute, a u32
    battr,                  \* the pa_buffer_attr it returns
    can_balance,            \* what the output's channel map answers
    panning_ret,            \* what set_panning returned ("none" before)
    requests,               \* the requests set_panning made to the server
    output_device,          \* argument of Stream::new: null or a C string
    input_device,           \* argument of Stream::new: null or a C string
    connects,               \* the connect requests made, with their names
    in_thread,              \* position: mainloop.in_thread()
    position_ret,           \* what position returned ("none" before)
    calc_pc                 \* which computation is being followed, if any

params == <<output_stream_params, input_stream_params>>
stream == <<output_stream, input_stream, drain_timer, output_sample_spec,
            input_sample_spec, shutdown, state>>
server == <<pa_out, pa_in, op>>
mainloop == <<lock, deferred, timers, next_timer>>
gainvars == <<volume, produced, buffer>>
battrvars == <<latency_frames, battr>>
panvars == <<can_balance, panning_ret, requests>>
devvars == <<output_device, input_device, connects>>
posvars == <<in_thread, position_ret>>
calc == <<gainvars, battrvars, panvars, devvars, posvars, calc_pc>>
vars == <<params, stream, server, mainloop, app, loop, reports, calls, last,
          calc>>

(* ------------------------- pure helper functions ------------------------ *)

\* pulse::SampleSpec::default()
DefaultSpec == [format |-> "INVALID", channels |-> 0]

\* pa_sample_size: bytes per sample
SampleSize(format) ==
    IF format \in {"S16LE", "S16BE"} THEN 2
    ELSE IF format \in {"FLOAT32LE", "FLOAT32BE"} THEN 4
    ELSE 0

\* SampleSpec::frame_size
FrameSize(ss) == ss.channels * SampleSize(ss.format)

\* stream_init's to_pulse_format
ToPulseFormat(format) ==
    IF format \in SupportedFormats THEN format ELSE "INVALID"

\* Stream::stream_init: created says whether pulse::Stream::new returned a
\* non-null stream
StreamInit(stream_params, created) ==
    IF ToPulseFormat(stream_params.format) = "INVALID" THEN ERROR_INVALID_FORMAT
    ELSE IF created THEN OK
    ELSE ERROR

\* a pulse::Stream that does not exist (pulse::Stream::default())
NoStream ==
    [st |-> "none", corked |-> FALSE, state_cb |-> FALSE, io_cb |-> FALSE,
     connected |-> FALSE]

\* a connect without STREAM_START_CORKED
Connecting_Uncorked ==
    [st |-> "creating", corked |-> FALSE, state_cb |-> TRUE, io_cb |-> TRUE,
     connected |-> TRUE]

\* the stream after set_state_callback, set_write/read_callback and
\* connect_playback/connect_record with STREAM_START_CORKED
Connecting ==
    [st |-> "creating", corked |-> TRUE, state_cb |-> TRUE, io_cb |-> TRUE,
     connected |-> TRUE]

\* the last observation of a step: who ran, what it did, and which shared
\* fields of Stream it wrote, holding the mainloop lock or not
\* cb: the application callback the step entered ("data", "state" or "none")
ObsCb(who, kind, wrote, locked, cb) ==
    [who |-> who, kind |-> kind, wrote |-> wrote, locked |-> locked, cb |-> cb]

Obs(who, kind, wrote, locked) == ObsCb(who, kind, wrote, locked, "none")

\* pa_buffer_attr before set_buffering_attribute filled it
NoAttr ==
    LET zero == [hi |-> 0, lo |-> 0]
    IN [maxlength |-> zero, tlength |-> zero, prebuf |-> zero,
        minreq |-> zero, fragsize |-> zero]

\* Stream::new leaves volume at PULSE_NO_GAIN; the engine model follows no
\* computation
CalcIdle ==
    /\ volume = PULSE_NO_GAIN
    /\ produced = <<>>
    /\ buffer = <<>>
    /\ latency_frames = [hi |-> 0, lo |-> 0]
    /\ battr = NoAttr
    /\ can_balance = FALSE
    /\ panning_ret = "none"
    /\ requests = <<>>
    /\ output_device = NULL
    /\ input_device = NULL
    /\ connects = <<>>
    /\ in_thread = FALSE
    /\ position_ret = "none"
    /\ calc_pc = "none"

Init ==
    /\ output_stream_params \in ParamChoices
    /\ input_stream_params \in ParamChoices
    /\ output_stream = "null"
    /\ input_stream = "null"
    /\ drain_timer = NULL
    /\ output_sample_spec = DefaultSpec
    /\ input_sample_spec = DefaultSpec
    /\ shutdown = FALSE
    /\ state = STATE_ERROR
    /\ pa_out = NoStream
    /\ pa_in = NoStream
    /\ op = [st |-> "none", target |-> "none", kind |-> "none", ok |-> TRUE]
    /\ lock = "free"
    /\ deferred = 0
    /\ timers = {}
    /\ next_timer = 1
    /\ app = [pc |-> "new_lock", r |-> TRUE, err |-> OK,
              is_cork |-> FALSE, notify |-> FALSE,
              cork_ret |-> "none", destroy_ret |-> "none"]
    /\ loop = [pc |-> "idle"]
    /\ reports = <<>>
    /\ calls = <<>>
    /\ last = Obs("none", "init", {}, FALSE)
    /\ CalcIdle

(* ====================== the application thread ========================== *)

AppAt(pc) == [app EXCEPT !.pc = pc]

\* a call of self.cork(state): the thread continues at cork's first step
CallCork(is_cork, notify, ret) ==
    [app EXCEPT !.pc = "cork_lock", !.is_cork = is_cork, !.notify = notify,
                !.cork_ret = ret]

\* a destroy whose cork asks for the notification
CallDestroy_Notifies(a, ret) ==
    [a EXCEPT !.pc = "cork_lock", !.is_cork = TRUE, !.notify = TRUE,
              !.cork_ret = "destroy_body", !.destroy_ret = ret]

\* a call of self.destroy(), whose first statement is self.cork(CorkState::cork())
CallDestroy(a, ret) ==
    [a EXCEPT !.pc = "cork_lock", !.is_cork = TRUE, !.notify = FALSE,
              !.cork_ret = "destroy_body", !.destroy_ret = ret]

(* --------------------------- Stream::new -------------------------------- *)

\* stm.context.mainloop.lock()
NewLock ==
    /\ app.pc = "new_lock"
    /\ lock = "free"
    /\ lock' = "app"
    /\ app' = AppAt("new_out")
    /\ last' = Obs("app", "lock", {}, TRUE)
    /\ UNCHANGED <<params, calc, stream, server, deferred, timers, next_timer,
                   loop, reports, calls>>

\* "Setup output stream": stream_init, callbacks, connect_playback
NewOutput ==
    /\ app.pc = "new_out"
    /\ IF output_stream_params = NoParams
       THEN /\ app' = AppAt("new_in")
            /\ last' = Obs("app", "new_output", {}, TRUE)
            /\ UNCHANGED <<stream, pa_out, lock>>
       ELSE \E created \in BOOLEAN :
            LET res == StreamInit(output_stream_params, created) IN
            IF res = OK
            THEN /\ output_sample_spec' =
                        [format |-> ToPulseFormat(output_stream_params.format),
                         channels |-> output_stream_params.channels]
                 /\ pa_out' = Connecting
                 /\ output_stream' = "set"
                 /\ app' = AppAt("new_in")
                 /\ last' = Obs("app", "new_output", {}, TRUE)
                 /\ UNCHANGED <<input_stream, drain_timer, input_sample_spec,
                                shutdown, state, lock>>
            ELSE /\ lock' = "free"
                 /\ app' = CallDestroy([app EXCEPT !.err = res], "new_drop")
                 /\ last' = Obs("app", "new_output_err", {}, TRUE)
                 /\ UNCHANGED <<stream, pa_out>>
    /\ UNCHANGED <<params, calc, pa_in, op, deferred, timers, next_timer, loop,
                   reports, calls>>

\* "Set up input stream": stream_init, callbacks, connect_record
NewInput ==
    /\ app.pc = "new_in"
    /\ IF input_stream_params = NoParams
       THEN /\ app' = AppAt("new_ready_out")
            /\ last' = Obs("app", "new_input", {}, TRUE)
            /\ UNCHANGED <<stream, pa_in, lock>>
       ELSE \E created \in BOOLEAN :
            LET res == StreamInit(input_stream_params, created) IN
            IF res = OK
            THEN /\ input_sample_spec' =
                        [format |-> ToPulseFormat(input_stream_params.format),
                         channels |-> input_stream_params.channels]
                 /\ pa_in' = Connecting
                 /\ input_stream' = "set"
                 /\ app' = AppAt("new_ready_out")
                 /\ last' = Obs("app", "new_input", {}, TRUE)
                 /\ UNCHANGED <<output_stream, drain_timer, output_sample_spec,
                                shutdown, state, lock>>
            ELSE /\ lock' = "free"
                 /\ app' = CallDestroy([app EXCEPT !.err = res], "new_drop")
                 /\ last' = Obs("app", "new_input_err", {}, TRUE)
                 /\ UNCHANGED <<stream, pa_in>>
    /\ UNCHANGED <<params, calc, pa_out, op, deferred, timers, next_timer, loop,
                   reports, calls>>

\* StreamState::is_good
IsGood(st) == st \in {"creating", "ready"}

\* wait_until_ready's wait_until_io_stream_ready on one stream: the next
\* position of Stream::new and whether the mainloop lock is given up (wait).
\* r is false when wait_until_ready fails, and update_timing_info starts
\* with its own r = false.
WaitReady(handle, pa, here, next) ==
    IF handle = "null" THEN [pc |-> next, wait |-> FALSE]
    ELSE IF ~IsGood(pa.st) THEN [pc |-> "new_unlock", wait |-> FALSE]
    ELSE IF pa.st = "ready" THEN [pc |-> next, wait |-> FALSE]
    ELSE [pc |-> here, wait |-> TRUE]

NewWaitReady(here, handle, pa, next) ==
    /\ app.pc = here
    /\ LET w == WaitReady(handle, pa, here \o "_w", next) IN
       /\ app' = [app EXCEPT !.pc = w.pc, !.r = FALSE]
       /\ lock' = IF w.wait THEN "free" ELSE lock
    /\ last' = Obs("app", "wait_until_ready", {}, TRUE)
    /\ UNCHANGED <<params, calc, stream, server, deferred, timers, next_timer,
                   loop, reports, calls>>

\* mainloop.wait() returns inside wait_until_io_stream_ready
NewWoken(here, pa) ==
    /\ app.pc = here \o "_w"
    /\ lock = "free"
    /\ pa.st # "creating"
    /\ lock' = "app"
    /\ app' = AppAt(here)
    /\ last' = Obs("app", "woken", {}, TRUE)
    /\ UNCHANGED <<params, calc, stream, server, deferred, timers, next_timer,
                   loop, reports, calls>>

NewReady ==
    \/ NewWaitReady("new_ready_out", output_stream, pa_out, "new_ready_in")
    \/ NewWoken("new_ready_out", pa_out)
    \/ NewWaitReady("new_ready_in", input_stream, pa_in, "new_timing_out")
    \/ NewWoken("new_ready_in", pa_in)

NoOp == [st |-> "none", target |-> "none", kind |-> "none", ok |-> TRUE]

\* an operation handed to the server; stream_success will signal its end
Pending(target, kind) ==
    [st |-> "pending", target |-> target, kind |-> kind, ok |-> TRUE]

\* Stream::update_timing_info on one stream.  r is false until an
\* operation_wait sets it; a request the library refuses leaves r as it is.
NewTiming(here, handle, target, next) ==
    /\ app.pc = here
    /\ IF handle = "null"
       THEN /\ app' = AppAt(next)
            /\ UNCHANGED <<op, lock>>
       ELSE \E issued \in BOOLEAN :
            IF issued
            THEN /\ op' = Pending(target, "timing")
                 /\ lock' = "free"
                 /\ app' = AppAt(here \o "_w")
            ELSE /\ app' = AppAt(IF target = "out" THEN "new_unlock" ELSE next)
                 /\ UNCHANGED <<op, lock>>
    /\ last' = Obs("app", "update_timing_info", {}, TRUE)
    /\ UNCHANGED <<params, calc, stream, pa_out, pa_in, deferred, timers,
                   next_timer, loop, reports, calls>>

\* operation_wait returns: true unless the context or the stream went bad
NewTimingDone(here, target, next) ==
    /\ app.pc = here \o "_w"
    /\ lock = "free"
    /\ op.st = "done"
    /\ lock' = "app"
    /\ op' = NoOp
    /\ app' = [app EXCEPT !.r = op.ok,
                          !.pc = IF target = "out" /\ ~op.ok
                                 THEN "new_unlock" ELSE next]
    /\ last' = Obs("app", "woken", {}, TRUE)
    /\ UNCHANGED <<params, calc, stream, pa_out, pa_in, deferred, timers,
                   next_timer, loop, reports, calls>>

NewTimingInfo ==
    \/ NewTiming("new_timing_out", output_stream, "out", "new_timing_in")
    \/ NewTimingDone("new_timing_out", "out", "new_timing_in")
    \/ NewTiming("new_timing_in", input_stream, "in", "new_unlock")
    \/ NewTimingDone("new_timing_in", "in", "new_unlock")

\* mainloop.unlock(); if !r { destroy(); return Err(ERROR) }; Ok(stm)
NewUnlock ==
    /\ app.pc = "new_unlock"
    /\ lock' = "free"
    /\ app' = IF app.r THEN AppAt("idle")
              ELSE CallDestroy([app EXCEPT !.err = ERROR], "new_drop")
    /\ last' = Obs("app", "unlock", {}, TRUE)
    /\ UNCHANGED <<params, calc, stream, server, deferred, timers, next_timer,
                   loop, reports, calls>>

\* an Err return of Stream::new drops the Box<Stream>: Drop::drop runs
\* destroy once more, and the caller holds the error only
NewDrop ==
    /\ app.pc = "new_drop"
    /\ app' = CallDestroy(app, "failed")
    /\ last' = Obs("app", "drop", {}, FALSE)
    /\ UNCHANGED <<params, calc, stream, server, mainloop, loop, reports, calls>>

(* ------------------------ Stream::cork / cork_stream -------------------- *)
(* The application thread's statements between taking the mainloop lock    *)
(* and giving it up (unlock, or wait inside operation_wait) are one step:  *)
(* the mainloop thread needs the lock for every step of its own.           *)

\* pa_stream_cork hands back an operation only for a stream that is Ready
CorkIssued(handle, pa) == handle # "null" /\ pa.st = "ready"

\* where cork goes after mainloop.unlock()
AfterCork == IF app.notify THEN "cork_notify" ELSE app.cork_ret

CorkOp(target) == Pending(target, IF app.is_cork THEN "cork" ELSE "uncork")

\* cork: lock; cork_stream(output_stream) and cork_stream(input_stream), up
\* to the first request that is issued (operation_wait then waits for the
\* server), else unlock
CorkBegin ==
    /\ app.pc = "cork_lock"
    /\ lock = "free"
    /\ IF CorkIssued(output_stream, pa_out)
       THEN /\ op' = CorkOp("out")
            /\ app' = AppAt("cork_out_w")
       ELSE IF CorkIssued(input_stream, pa_in)
       THEN /\ op' = CorkOp("in")
            /\ app' = AppAt("cork_in_w")
       ELSE /\ app' = AppAt(AfterCork)
            /\ UNCHANGED op
    /\ last' = Obs("app", "cork", {}, TRUE)
    /\ UNCHANGED <<params, calc, stream, pa_out, pa_in, mainloop, loop, reports,
                   calls>>

\* operation_wait on the output stream's request returns; then
\* cork_stream(input_stream), and unlock if that issues nothing
CorkOutDone ==
    /\ app.pc = "cork_out_w"
    /\ lock = "free"
    /\ op.st = "done"
    /\ IF CorkIssued(input_stream, pa_in)
       THEN /\ op' = CorkOp("in")
            /\ app' = AppAt("cork_in_w")
       ELSE /\ op' = NoOp
            /\ app' = AppAt(AfterCork)
    /\ last' = Obs("app", "cork", {}, TRUE)
    /\ UNCHANGED <<params, calc, stream, pa_out, pa_in, mainloop, loop, reports,
                   calls>>

\* operation_wait on the input stream's request returns; unlock
CorkInDone ==
    /\ app.pc = "cork_in_w"
    /\ lock = "free"
    /\ op.st = "done"
    /\ op' = NoOp
    /\ app' = AppAt(AfterCork)
    /\ last' = Obs("app", "cork", {}, TRUE)
    /\ UNCHANGED <<params, calc, stream, pa_out, pa_in, mainloop, loop, reports,
                   calls>>

\* a cork that always reports Started
CorkNotifyState_AlwaysStarted(is_cork) == STATE_STARTED

\* the state cork reports when state.is_notify()
CorkNotifyState(is_cork) == IF is_cork THEN STATE_STOPPED ELSE STATE_STARTED

\* state_change_callback called by cork after mainloop.unlock(): self.state is
\* written and the application's state callback is entered
CorkNotify ==
    /\ app.pc = "cork_notify"
    /\ state' = CorkNotifyState(app.is_cork)
    /\ reports' = Append(reports, CorkNotifyState(app.is_cork))
    /\ app' = AppAt("state_cb")
    /\ last' = ObsCb("app", "state_change_callback", {"state"}, lock = "app",
                      "state")
    /\ UNCHANGED <<params, calc, output_stream, input_stream, drain_timer,
                   output_sample_spec, input_sample_spec, shutdown, server,
                   mainloop, loop, calls>>

\* the application's state callback returns to cork, and cork to its caller
StateCbReturn ==
    /\ app.pc = "state_cb"
    /\ app' = AppAt(app.cork_ret)
    /\ last' = Obs("app", "state_cb_return", {}, lock = "app")
    /\ UNCHANGED <<params, calc, stream, server, mainloop, loop, reports, calls>>

(* ---------------------------- Stream::destroy --------------------------- *)

\* a destroy that disconnects without clearing the callbacks
Disconnected_KeepsCallbacks(pa) ==
    [pa EXCEPT !.connected = FALSE, !.st = "terminated"]

\* what destroy leaves of a pulse::Stream: callbacks cleared, disconnected
Disconnected(pa) ==
    [pa EXCEPT !.state_cb = FALSE, !.io_cb = FALSE, !.connected = FALSE,
               !.st = "terminated"]

\* destroy after its cork: under the lock, free the drain timer, clear the
\* callbacks, disconnect and reset each stream that is not null
DestroyBody ==
    /\ app.pc = "destroy_body"
    /\ lock = "free"
    /\ timers' = IF output_stream # "null" /\ drain_timer # NULL
                 THEN timers \ {drain_timer} ELSE timers
    /\ pa_out' = IF output_stream # "null" THEN Disconnected(pa_out) ELSE pa_out
    /\ output_stream' = "null"
    /\ pa_in' = IF input_stream # "null" THEN Disconnected(pa_in) ELSE pa_in
    /\ input_stream' = "null"
    /\ app' = AppAt(app.destroy_ret)
    /\ last' = Obs("app", "destroy", {}, TRUE)
    /\ UNCHANGED <<params, calc, drain_timer, output_sample_spec, input_sample_spec,
                   shutdown, state, op, lock, deferred, next_timer, loop,
                   reports, calls>>

(* ------------------------ Stream::start / stop / drop ------------------- *)

\* start's first statement, self.shutdown = false, then self.cork(uncork|notify)
StartBegin ==
    /\ app.pc = "idle"
    /\ Len(calls) < MaxCalls
    /\ calls' = Append(calls, "start")
    /\ shutdown' = FALSE
    /\ app' = CallCork(FALSE, TRUE, "start_preroll")
    /\ last' = Obs("app", "start", {"shutdown"}, lock = "app")
    /\ UNCHANGED <<params, calc, output_stream, input_stream, drain_timer,
                   output_sample_spec, input_sample_spec, state, server,
                   mainloop, loop, reports>>

\* a test that forgets the input stream
NeedsPreroll_AnyOutput == output_stream # "null"

\* the output-only test of start
NeedsPreroll == output_stream # "null" /\ input_stream = "null"

\* after cork returned: on an output-only stream lock, once(output_preroll),
\* unlock; then return OK
StartPreroll ==
    /\ app.pc = "start_preroll"
    /\ IF NeedsPreroll
       THEN /\ lock = "free"
            /\ deferred' = deferred + 1
       ELSE UNCHANGED deferred
    /\ app' = AppAt("idle")
    /\ last' = Obs("app", "start_return", {}, NeedsPreroll)
    /\ UNCHANGED <<params, calc, stream, server, lock, timers, next_timer, loop,
                   reports, calls>>

\* stop: lock; self.shutdown = true; with no drain timer unlock and go on to
\* self.cork(cork|notify), else mainloop.wait()
StopBegin ==
    /\ app.pc = "idle"
    /\ Len(calls) < MaxCalls
    /\ lock = "free"
    /\ calls' = Append(calls, "stop")
    /\ shutdown' = TRUE
    /\ app' = IF drain_timer = NULL THEN CallCork(TRUE, TRUE, "idle")
              ELSE AppAt("stop_wait_w")
    /\ last' = Obs("app", "stop", {"shutdown"}, TRUE)
    /\ UNCHANGED <<params, calc, output_stream, input_stream, drain_timer,
                   output_sample_spec, input_sample_spec, state, server,
                   mainloop, loop, reports>>

\* mainloop.wait() returns in stop once the drain timer handle is null (a
\* wake-up that finds it still set waits again); unlock; self.cork(cork|notify)
StopWoken ==
    /\ app.pc = "stop_wait_w"
    /\ lock = "free"
    /\ drain_timer = NULL
    /\ app' = CallCork(TRUE, TRUE, "idle")
    /\ last' = Obs("app", "stop_woken", {}, TRUE)
    /\ UNCHANGED <<params, calc, stream, server, mainloop, loop, reports, calls>>

\* the application drops the stream: Drop::drop calls destroy
Drop ==
    /\ app.pc = "idle"
    /\ calls' = Append(calls, "destroy")
    /\ app' = CallDestroy(app, "destroyed")
    /\ last' = Obs("app", "drop", {}, FALSE)
    /\ UNCHANGED <<params, calc, stream, server, mainloop, loop, reports>>

(* ======================== the mainloop thread =========================== *)
(* The thread holds the mainloop lock while it dispatches a callback.  A   *)
(* callback that enters the application's data callback stays in progress *)
(* (loop.pc = "cb" or "rcb", lock = "loop") until the callback returns.    *)

LoopIdle == [pc |-> "idle"]

\* the mainloop thread may dispatch the next event
Dispatch == loop.pc = "idle" /\ lock = "free"

\* an assertion of the library fails (a null handle passed to it): the
\* process is aborted, and neither thread takes another step
Abort ==
    /\ loop' = [pc |-> "aborted"]
    /\ app' = [app EXCEPT !.pc = "aborted"]
    /\ lock' = "loop"

\* read_data: read_frames = read_size / in_frame_size
ReadFrames(read_size, in_frame_size) == read_size \div in_frame_size

\* a conversion that uses the input frame size
WriteSize_InputFrameSize(read_frames, out_frame_size) ==
    read_frames * FrameSize(input_sample_spec)

\* read_data: write_size = read_frames * out_frame_size
WriteSize(read_frames, out_frame_size) == read_frames * out_frame_size

\* trigger_user_callback: read_offset += (size / frame_size) * in_frame_size
AdvanceReadOffset(read_offset, size, frame_size, in_frame_size) ==
    read_offset + (size \div frame_size) * in_frame_size

\* a drain test that also takes a full write for a short one
DataCbResult_FullIsShort(got, frames) ==
    IF got < 0 THEN "negative"
    ELSE IF got <= frames THEN "short"
    ELSE "full"

\* a test that takes a negative return for a short write
DataCbResult_NegativeIsShort(got, frames) ==
    IF got < frames THEN "short" ELSE "full"

\* trigger_user_callback: how the value the data callback returned is treated
DataCbResult(got, frames) ==
    IF got < 0 THEN "negative"
    ELSE IF got < frames THEN "short"
    ELSE "full"

\* a test that takes only a negative return for a failure
ReadCbFailed_NegativeOnly(got, read_frames) == got < 0

\* read_data, input only: got < 0 || got as usize != read_frames
ReadCbFailed(got, read_frames) == got < 0 \/ got # read_frames

\* a write_data that does not look at the state
WriteDataSkips_IgnoresState == shutdown

\* a write_data that does not look at shutdown
WriteDataSkips_IgnoresShutdown == state # STATE_STARTED

\* write_data returns at once: stm.shutdown || stm.state != STATE_STARTED
WriteDataSkips == shutdown \/ state # STATE_STARTED

\* the locals of trigger_user_callback(stream, input_data, nbytes) at entry,
\* with what its caller read_data keeps (the fragment, the number of fragments
\* left in the record buffer, and the bytes and frames it forwarded in this
\* event)
WritePath(entry, has_input, nbytes, read_size, left, fwd_bytes, fwd_frames) ==
    [pc |-> "cb", entry |-> entry, has_input |-> has_input, nbytes |-> nbytes,
     towrite |-> nbytes, read_offset |-> 0, size |-> 0, committed |-> 0,
     read_size |-> read_size, left |-> left,
     fwd_bytes |-> fwd_bytes, fwd_frames |-> fwd_frames]

\* a begin_write that may grant an empty region
Grants_MayBeEmpty(l) ==
    { k * FrameSize(output_sample_spec) :
        k \in 0..(l.towrite \div FrameSize(output_sample_spec)) }

\* the sizes begin_write may grant for l.towrite bytes
Grants(l) ==
    { k * FrameSize(output_sample_spec) :
        k \in 1..(l.towrite \div FrameSize(output_sample_spec)) }

\* what a step of the write path leaves in last: the request, the bytes of it
\* committed so far, and (when a data callback returned in the step) the
\* frames it was offered and the value it returned
ObsWp(kind, wrote, cb, l, frames, got) ==
    [who |-> "loop", kind |-> kind, wrote |-> wrote, locked |-> TRUE, cb |-> cb,
     entry |-> l.entry, nbytes |-> l.nbytes, committed |-> l.committed,
     towrite |-> l.towrite, frames |-> frames, got |-> got]

\* trigger_user_callback returns to its caller: read_data goes on after the
\* call, write_data and output_preroll return to the mainloop
WpReturn(l) ==
    IF l.entry = "read"
    THEN /\ loop' = [pc |-> "rd_check", left |-> l.left,
                     fwd_bytes |-> l.fwd_bytes, fwd_frames |-> l.fwd_frames]
         /\ lock' = "loop"
    ELSE /\ loop' = LoopIdle
         /\ lock' = "free"

\* while towrite > 0: begin_write grants a region and the data callback is
\* entered; with nothing to write the function returns
WpLoop(l, kind, wrote, frames, got) ==
    IF l.towrite > 0
    THEN /\ \E size \in Grants(l) : loop' = [l EXCEPT !.size = size]
         /\ lock' = "loop"
         /\ last' = ObsWp(kind, wrote, "data", l, frames, got)
    ELSE /\ WpReturn(l)
         /\ last' = ObsWp(kind \o "_done", wrote, "none", l, frames, got)

\* write_data: the server asks for nbytes
WriteReady ==
    /\ Dispatch
    /\ pa_out.st = "ready"
    /\ pa_out.io_cb
    /\ \E frames \in 1..MaxFrames :
       IF WriteDataSkips \/ input_stream # "null"
       THEN /\ last' = Obs("loop", "write_data_noop", {}, TRUE)
            /\ UNCHANGED <<loop, lock>>
       ELSE WpLoop(WritePath("write", FALSE,
                             frames * FrameSize(output_sample_spec), 0, 0, 0, 0),
                   "write_data", {}, 0, 0)
    /\ UNCHANGED <<params, calc, stream, server, deferred, timers, next_timer, app,
                   reports, calls>>

\* output_preroll, the deferred event start scheduled.  writable_size fails
\* or reports frames * frame_size bytes; on a stream that was dropped the
\* handle is null and the library aborts.
Preroll ==
    /\ Dispatch
    /\ deferred > 0
    /\ deferred' = deferred - 1
    /\ IF shutdown
       THEN /\ last' = Obs("loop", "preroll_noop", {}, TRUE)
            /\ UNCHANGED <<loop, lock, app>>
       ELSE IF output_stream = "null"
       THEN /\ Abort
            /\ last' = Obs("loop", "preroll_abort", {}, TRUE)
       ELSE /\ \E frames \in 0..MaxFrames :
               WpLoop(WritePath("preroll", FALSE,
                                frames * FrameSize(output_sample_spec), 0, 0, 0, 0),
                      "preroll", {}, 0, 0)
            /\ UNCHANGED app
    /\ UNCHANGED <<params, calc, stream, server, timers, next_timer, reports, calls>>

\* the data callback returns got to trigger_user_callback, which finishes the
\* iteration: cancel and shut down, or commit and (on a short write) arm the
\* drain timer and shut down, or go round the loop
DataCbReturn ==
    /\ loop.pc = "cb"
    /\ LET frame_size == FrameSize(output_sample_spec)
           frames == loop.size \div frame_size
       IN \E got \in (-1)..frames :
          LET res == DataCbResult(got, frames)
              moved == IF loop.has_input
                       THEN [loop EXCEPT !.read_offset =
                                AdvanceReadOffset(loop.read_offset, loop.size,
                                    frame_size, FrameSize(input_sample_spec))]
                       ELSE loop
              written == [moved EXCEPT !.committed = @ + got * frame_size]
          IN CASE res = "negative" ->
                  /\ shutdown' = TRUE
                  /\ WpReturn(loop)
                  /\ last' = ObsWp("wp_negative", {"shutdown"}, "none", loop,
                                   frames, got)
                  /\ UNCHANGED <<drain_timer, timers, next_timer>>
               [] res = "short" ->
                  /\ drain_timer' = next_timer
                  /\ timers' = timers \cup {next_timer}
                  /\ next_timer' = next_timer + 1
                  /\ shutdown' = TRUE
                  /\ WpReturn(written)
                  /\ last' = ObsWp("wp_short", {"drain_timer", "shutdown"},
                                   "none", written, frames, got)
               [] OTHER ->
                  /\ WpLoop([written EXCEPT !.towrite = @ - loop.size],
                            "wp_full", {}, frames, got)
                  /\ UNCHANGED <<shutdown, drain_timer, timers, next_timer>>
    /\ UNCHANGED <<params, calc, output_stream, input_stream, output_sample_spec,
                   input_sample_spec, state, server, deferred, app, reports,
                   calls>>

\* a fragment peek may return: frames of data, or a hole of that length
Chunk == [frames : 1..MaxFrames, hole : BOOLEAN]

\* one turn of read_data's loop on fragment c (left: the number of fragments
\* after it in the record buffer)
ReadChunk(c, left, fwd_bytes, fwd_frames) ==
    LET in_frame_size == FrameSize(input_sample_spec)
        read_size == c.frames * in_frame_size
        read_frames == ReadFrames(read_size, in_frame_size)
        write_size == WriteSize(read_frames, FrameSize(output_sample_spec))
    IN IF c.hole
       THEN /\ loop' = [pc |-> "rd_check", left |-> left,
                        fwd_bytes |-> fwd_bytes, fwd_frames |-> fwd_frames]
            /\ lock' = "loop"
            /\ last' = Obs("loop", "read_hole", {}, TRUE)
       ELSE IF output_stream # "null"
       THEN WpLoop(WritePath("read", TRUE, write_size, read_size, left,
                             fwd_bytes + write_size, fwd_frames + c.frames),
                   "read_data", {}, 0, 0)
       ELSE /\ loop' = [pc |-> "rcb", read_frames |-> read_frames,
                        left |-> left, fwd_bytes |-> 0, fwd_frames |-> 0]
            /\ lock' = "loop"
            /\ last' = ObsCb("loop", "read_data", {}, TRUE, "data")

\* read_data: the record stream has data
ReadReady ==
    /\ Dispatch
    /\ pa_in.st = "ready"
    /\ pa_in.io_cb
    /\ ~pa_in.corked
    /\ \E n \in 1..MaxChunks, c \in Chunk :
       IF shutdown
       THEN /\ last' = Obs("loop", "read_data_noop", {}, TRUE)
            /\ UNCHANGED <<loop, lock>>
       ELSE ReadChunk(c, n - 1, 0, 0)
    /\ UNCHANGED <<params, calc, stream, server, deferred, timers, next_timer, app,
                   reports, calls>>

\* read_data after a fragment: drop_record; if stm.shutdown { return };
\* then the next fragment, or the end of the loop
ReadNext ==
    /\ loop.pc = "rd_check"
    /\ IF shutdown \/ loop.left = 0
       THEN /\ loop' = LoopIdle
            /\ lock' = "free"
            /\ last' = Obs("loop", "read_data_return", {}, TRUE)
       ELSE \E c \in Chunk :
            ReadChunk(c, loop.left - 1, loop.fwd_bytes, loop.fwd_frames)
    /\ UNCHANGED <<params, calc, stream, server, deferred, timers, next_timer, app,
                   reports, calls>>

\* what the return of the data callback to read_data leaves in last: the
\* frames offered, the value returned, the fragments that were still in the
\* record buffer, and whether drop_record was called on the fragment
ObsRead(kind, wrote, frames, got, left, dropped) ==
    [who |-> "loop", kind |-> kind, wrote |-> wrote, locked |-> TRUE,
     cb |-> "none", frames |-> frames, got |-> got, left |-> left,
     dropped |-> dropped]

\* input only: the data callback returns got to read_data, which on a
\* failure cancels, sets shutdown and leaves the loop, and else drops the
\* fragment
ReadCbReturn ==
    /\ loop.pc = "rcb"
    /\ \E got \in (-1)..(loop.read_frames + 1) :
       IF ReadCbFailed(got, loop.read_frames)
       THEN /\ shutdown' = TRUE
            /\ loop' = LoopIdle
            /\ lock' = "free"
            /\ last' = ObsRead("read_cb_failed", {"shutdown"},
                                loop.read_frames, got, loop.left, FALSE)
       ELSE /\ loop' = [pc |-> "rd_check", left |-> loop.left,
                        fwd_bytes |-> 0, fwd_frames |-> 0]
            /\ lock' = "loop"
            /\ last' = ObsRead("read_cb_ok", {}, loop.read_frames, got,
                                loop.left, TRUE)
            /\ UNCHANGED shutdown
    /\ UNCHANGED <<params, calc, output_stream, input_stream, drain_timer,
                   output_sample_spec, input_sample_spec, state, server,
                   deferred, timers, next_timer, app, reports, calls>>

\* drained_cb: the time event e fires
TimerFire ==
    /\ Dispatch
    /\ \E e \in timers :
       /\ state' = STATE_DRAINED
       /\ reports' = Append(reports, STATE_DRAINED)
       /\ timers' = timers \ {e, drain_timer}
       /\ drain_timer' = NULL
       /\ IF drain_timer = NULL
          THEN Abort
          ELSE UNCHANGED <<loop, lock, app>>
       /\ last' = ObsCb("loop", "drained_cb", {"state", "drain_timer"}, TRUE,
                        "state")
    /\ UNCHANGED <<params, calc, output_stream, input_stream, output_sample_spec,
                   input_sample_spec, shutdown, server, deferred, next_timer,
                   calls>>

\* stream_success: the server carried out the pending operation
ServerAck ==
    /\ Dispatch
    /\ op.st = "pending"
    /\ \E ok \in (IF op.kind = "timing" THEN BOOLEAN ELSE {TRUE}) :
          op' = [op EXCEPT !.st = "done", !.ok = ok]
    /\ pa_out' = IF op.target = "out" /\ op.kind # "timing"
                 THEN [pa_out EXCEPT !.corked = (op.kind = "cork")] ELSE pa_out
    /\ pa_in' = IF op.target = "in" /\ op.kind # "timing"
                THEN [pa_in EXCEPT !.corked = (op.kind = "cork")] ELSE pa_in
    /\ last' = Obs("loop", "stream_success", {}, TRUE)
    /\ UNCHANGED <<params, calc, stream, mainloop, app, loop, reports, calls>>

\* check_error: a connecting stream becomes Ready or Failed
StateChange(target, pa) ==
    /\ Dispatch
    /\ pa.st = "creating"
    /\ pa.connected
    /\ \E st \in {"ready", "failed"} :
       /\ pa_out' = IF target = "out" THEN [pa_out EXCEPT !.st = st] ELSE pa_out
       /\ pa_in' = IF target = "in" THEN [pa_in EXCEPT !.st = st] ELSE pa_in
       /\ IF pa.state_cb /\ ~IsGood(st)
          THEN /\ state' = STATE_ERROR
               /\ reports' = Append(reports, STATE_ERROR)
               /\ last' = ObsCb("loop", "check_error", {"state"}, TRUE, "state")
          ELSE /\ last' = Obs("loop", "check_error", {}, TRUE)
               /\ UNCHANGED <<state, reports>>
    /\ UNCHANGED <<params, calc, output_stream, input_stream, drain_timer,
                   output_sample_spec, input_sample_spec, shutdown, op,
                   mainloop, app, loop, calls>>

CheckError ==
    \/ StateChange("out", pa_out)
    \/ StateChange("in", pa_in)

(* ============================ specification ============================= *)

Next ==
    \* the application thread
    \/ NewLock \/ NewOutput \/ NewInput \/ NewReady \/ NewTimingInfo
    \/ NewUnlock \/ NewDrop
    \/ CorkBegin \/ CorkOutDone \/ CorkInDone \/ CorkNotify \/ StateCbReturn
    \/ DestroyBody
    \/ StartBegin \/ StartPreroll \/ StopBegin \/ StopWoken
    \/ Drop
    \* the mainloop thread
    \/ WriteReady \/ Preroll \/ DataCbReturn
    \/ ReadReady \/ ReadNext \/ ReadCbReturn
    \/ TimerFire \/ ServerAck \/ CheckError

Spec == Init /\ [][Next]_vars

\* What the threads can be relied on to do.  The mainloop thread, whenever
\* it can take the lock, fires a time event that is due, runs a deferred
\* event and handles the server's answer to a pending operation; the server
\* answers; the application's callbacks return; and the application thread
\* goes on with the operation it is in as soon as the lock or the wake-up it
\* waits for comes (the lock is granted, in the end, to a thread that keeps
\* asking for it).  Whether the application calls start, stop or drops the
\* stream, and whether the server sends write requests or data, is left open.
Fairness ==
    /\ SF_vars(TimerFire)
    /\ SF_vars(ServerAck)
    /\ SF_vars(Preroll)
    /\ WF_vars(DataCbReturn)
    /\ WF_vars(ReadNext)
    /\ WF_vars(ReadCbReturn)
    /\ SF_vars(CorkBegin \/ CorkOutDone \/ CorkInDone)
    /\ SF_vars(StopWoken)
    /\ WF_vars(CorkNotify \/ StateCbReturn)
    /\ SF_vars(StartPreroll)

FairSpec == Spec /\ Fairness

(* ===================== the engine's arithmetic ========================== *)
(* The gain applied to a written region and the buffering policy are        *)
(* functions of their inputs alone.  CalcSpec follows each of them on an    *)
(* output-only engine whose sample spec, volume, samples and latency are    *)
(* drawn from bounded sets.                                                 *)
(* It also follows, each on its own, the sequential operations            *)
(* set_panning and position, and the stream setup of Stream::new with its  *)
(* device selectors.                                                        *)

\* x as a two's complement integer of the given width (wrapping arithmetic)
WrapSigned(x, bits) ==
    LET r == x % (2 ^ bits)
    IN IF r >= 2 ^ (bits - 1) THEN r - 2 ^ bits ELSE r

\* A u32 is kept as two halves, value = hi * Half + lo with both halves in
\* 0..Half-1, so that its arithmetic stays inside the integers of the checker.
Half == 2 ^ (U32Bits \div 2)

\* a small number as a u32
ToU32(n) == [hi |-> 0, lo |-> n]

\* u32::max_value()
U32Max == [hi |-> Half - 1, lo |-> Half - 1]

\* x * k without a width: hi may exceed a half
MulExact(x, k) ==
    LET p == x.lo * k
    IN [hi |-> x.hi * k + p \div Half, lo |-> p % Half]

\* x * k in u32 with wrapping: the bits above the 32nd are lost
MulU32(x, k) == [MulExact(x, k) EXCEPT !.hi = @ % Half]

\* x / d in u32, d a small divisor
DivU32(x, d) ==
    [hi |-> x.hi \div d, lo |-> ((x.hi % d) * Half + x.lo) \div d]

\* a / b rounded toward zero, b > 0
TruncDiv(a, b) == IF a >= 0 THEN a \div b ELSE -((-a) \div b)

\* self.volume as i16: the fraction is dropped, the value is saturated
VolumeAsI16(v) ==
    LET t == TruncDiv(v.num, v.den)
        hi == 2 ^ (I16Bits - 1) - 1
        lo == -(2 ^ (I16Bits - 1))
    IN IF t > hi THEN hi ELSE IF t < lo THEN lo ELSE t

\* a scaling that multiplies by the gain and then truncates
ScaleS16_ByFraction(sample, v) ==
    WrapSigned(TruncDiv(sample * v.num, v.den), I16Bits)

\* *b.offset(i) *= self.volume as i16
ScaleS16(sample, v) == WrapSigned(sample * VolumeAsI16(v), I16Bits)

\* *b.offset(i) *= self.volume, on f32: the exact product, as a fraction
ScaleF32(sample, v) == [num |-> sample * v.num, den |-> v.den]

\* trigger_user_callback between the data callback and pulse::Stream::write:
\* every sample of the region is scaled unless the volume is PULSE_NO_GAIN
ScaledRegion(region, v, ss) ==
    IF v = PULSE_NO_GAIN THEN region
    ELSE IF ss.format \in {"S16BE", "S16LE"}
    THEN [i \in DOMAIN region |-> ScaleS16(region[i], v)]
    ELSE [i \in DOMAIN region |-> ScaleF32(region[i], v)]

\* set_buffering_attribute(latency_frames, sample_spec), in u32 arithmetic
set_buffering_attribute(frames, sample_spec) ==
    LET tlength == MulU32(frames, FrameSize(sample_spec))
        minreq == DivU32(tlength, 4)
    IN [maxlength |-> U32Max, tlength |-> tlength,
        prebuf |-> U32Max, minreq |-> minreq, fragsize |-> minreq]

\* the gains set_volume is called with
Gains == [num : 0..MaxGain, den : {1, 2}]

\* the sample values the data callback produces
Samples == (-MaxSample..MaxSample) \cup {-(2 ^ (I16Bits - 1)), 2 ^ (I16Bits - 1) - 1}

\* the latencies Stream::new is called with
Latencies ==
    {ToU32(n) : n \in 0..MaxLatency} \cup
    {[hi |-> Half \div 4, lo |-> 0], [hi |-> Half \div 2, lo |-> 1], U32Max}

\* the mainloop thread is inside an application callback (which calls
\* position), holding the mainloop lock
InCallback == [pc |-> "in_callback"]

\* a constructed engine, output-only with sample spec ss or (has_output
\* false) input-only, about to follow the computation calc_pc
ConstructedInit ==
    \E ss \in [format : {"S16LE", "FLOAT32LE"}, channels : {1, 2}],
       has_output \in BOOLEAN :
       /\ output_stream_params = IF has_output THEN ss ELSE NoParams
       /\ input_stream_params = IF has_output THEN NoParams ELSE ss
       /\ output_stream = IF has_output THEN "set" ELSE "null"
       /\ input_stream = IF has_output THEN "null" ELSE "set"
       /\ drain_timer = NULL
       /\ output_sample_spec = IF has_output THEN ss ELSE DefaultSpec
       /\ input_sample_spec = IF has_output THEN DefaultSpec ELSE ss
       /\ shutdown = FALSE
       /\ state = STATE_ERROR
       /\ pa_out = IF has_output THEN [Connecting EXCEPT !.st = "ready"]
                   ELSE NoStream
       /\ pa_in = IF has_output THEN NoStream
                  ELSE [Connecting EXCEPT !.st = "ready"]
       /\ op = NoOp
       /\ deferred = 0
       /\ timers = {}
       /\ next_timer = 1
       /\ app = [pc |-> "idle", r |-> TRUE, err |-> OK,
                 is_cork |-> FALSE, notify |-> FALSE,
                 cork_ret |-> "none", destroy_ret |-> "none"]
       /\ reports = <<>>
       /\ calls = <<>>
       /\ last = Obs("none", "init", {}, FALSE)
       /\ volume = PULSE_NO_GAIN
       /\ battr = NoAttr
       /\ panning_ret = "none"
       /\ requests = <<>>
       /\ output_device = NULL
       /\ input_device = NULL
       /\ connects = <<>>
       /\ position_ret = "none"
       /\ \/ /\ calc_pc = "set_volume"
             /\ has_output
             /\ in_thread = FALSE
             /\ produced \in [1..ss.channels -> Samples]
             /\ buffer = produced
             /\ latency_frames = ToU32(0)
             /\ can_balance = FALSE
          \/ /\ calc_pc = "battr"
             /\ has_output
             /\ in_thread = FALSE
             /\ produced = <<>>
             /\ buffer = <<>>
             /\ latency_frames \in Latencies
             /\ can_balance = FALSE
          \/ /\ calc_pc = "set_panning"
             /\ in_thread = FALSE
             /\ produced = <<>>
             /\ buffer = <<>>
             /\ latency_frames = ToU32(0)
             /\ can_balance \in BOOLEAN
          \/ /\ calc_pc = "position"
             /\ in_thread \in BOOLEAN
             /\ produced = <<>>
             /\ buffer = <<>>
             /\ latency_frames = ToU32(0)
             /\ can_balance = FALSE
       /\ lock = IF in_thread THEN "loop" ELSE "free"
       /\ loop = IF in_thread THEN InCallback ELSE LoopIdle

engine == <<params, stream, server, mainloop, app, loop, reports, calls, last>>

\* set_volume(v): with flat volumes the engine keeps the gain for itself,
\* else the volume is handed to the server
SetVolume ==
    /\ calc_pc = "set_volume"
    /\ \E v \in Gains, flat \in BOOLEAN :
          volume' = IF flat THEN v ELSE volume
    /\ calc_pc' = "gain"
    /\ UNCHANGED <<engine, produced, buffer, battrvars, panvars, devvars, posvars>>

\* the write path scales the region the data callback filled
ScaleRegion ==
    /\ calc_pc = "gain"
    /\ buffer' = ScaledRegion(buffer, volume, output_sample_spec)
    /\ calc_pc' = "gain_done"
    /\ UNCHANGED <<engine, volume, produced, battrvars, panvars, devvars, posvars>>

\* Stream::new computes the buffer attributes of the output stream
NewBufferAttr ==
    /\ calc_pc = "battr"
    /\ battr' = set_buffering_attribute(latency_frames, output_sample_spec)
    /\ calc_pc' = "battr_done"
    /\ UNCHANGED <<engine, gainvars, latency_frames, panvars, devvars, posvars>>

(* ---------------------------- Stream::set_panning ----------------------- *)

\* what set_panning leaves alone
panfixed == <<params, stream, pa_out, pa_in, deferred, timers, next_timer, app,
              loop, reports, calls, last, gainvars, battrvars, can_balance,
              devvars, posvars>>

\* a set_panning that does not ask the channel map
PanningRefused_Never(can) == FALSE

\* if !map.can_balance() { unlock; return ERROR }
PanningRefused(can) == ~can

\* set_panning returns r, the mainloop lock given up if it was taken
PanningReturn(r) ==
    /\ panning_ret' = r
    /\ lock' = "free"
    /\ calc_pc' = "panning_done"

\* a request to the server was accepted (Ok(o)): it is noted, and
\* operation_wait gives up the lock until the server has answered
PanningRequest(name, wait_pc) ==
    /\ requests' = Append(requests, name)
    /\ op' = Pending("ctx", name)
    /\ lock' = "free"
    /\ calc_pc' = wait_pc
    /\ UNCHANGED panning_ret

\* set_panning up to its first wait or return: no output stream, or a
\* channel map that cannot balance, is an error; else get_sink_input_info
PanningBegin ==
    /\ calc_pc = "set_panning"
    /\ lock = "free"
    /\ IF output_stream = "null" \/ PanningRefused(can_balance)
       THEN /\ PanningReturn(ERROR)
            /\ UNCHANGED <<op, requests>>
       ELSE \E issued \in BOOLEAN :
            IF issued
            THEN PanningRequest("get_sink_input_info", "panning_info_w")
            ELSE /\ calc_pc' = "panning_update"
                 /\ lock' = "app"
                 /\ UNCHANGED <<op, requests, panning_ret>>
    /\ UNCHANGED panfixed

\* operation_wait returns with the lock held
PanningWoken(here, next) ==
    /\ calc_pc = here
    /\ lock = "free"
    /\ op.st = "done"
    /\ op' = NoOp
    /\ lock' = "app"
    /\ calc_pc' = next
    /\ UNCHANGED <<requests, panning_ret>>
    /\ UNCHANGED panfixed

\* set_balance; set_sink_input_volume; with no request accepted unlock and
\* return OK
PanningUpdate ==
    /\ calc_pc = "panning_update"
    /\ \E issued \in BOOLEAN :
       IF issued
       THEN PanningRequest("set_sink_input_volume", "panning_update_w")
       ELSE /\ PanningReturn(OK)
            /\ UNCHANGED <<op, requests>>
    /\ UNCHANGED panfixed

\* the last operation_wait returned: unlock and return OK
PanningEnd ==
    /\ calc_pc = "panning_end"
    /\ PanningReturn(OK)
    /\ UNCHANGED <<op, requests>>
    /\ UNCHANGED panfixed

SetPanning ==
    \/ PanningBegin
    \/ PanningWoken("panning_info_w", "panning_update")
    \/ PanningUpdate
    \/ PanningWoken("panning_update_w", "panning_end")
    \/ PanningEnd

(* ------------------------------ Stream::position ------------------------ *)

\* position, the frame count it computes left out: off the mainloop thread
\* it takes the lock; without an output stream it returns Err(ERROR) at once;
\* else get_time gives the time or fails, the lock is given up if it was
\* taken, and the result returned
Position ==
    /\ calc_pc = "position"
    /\ in_thread \/ lock = "free"
    /\ IF output_stream = "null"
       THEN /\ position_ret' = ERROR
            /\ lock' = IF in_thread THEN lock ELSE "app"
       ELSE /\ \E got_time \in BOOLEAN :
                  position_ret' = IF got_time THEN OK ELSE ERROR
            /\ UNCHANGED lock
    /\ calc_pc' = "position_done"
    /\ UNCHANGED <<params, stream, server, deferred, timers, next_timer, app,
                   loop, reports, calls, last, gainvars, battrvars, panvars,
                   devvars, in_thread>>

(* ------------------- Stream::new: the connect requests ------------------ *)

\* Option<&CStr>::None: the server chooses the device
NoName == [kind |-> "none", at |-> NULL]

\* CStr::from_ptr(p): the C string at p. Reading at a null pointer is
\* undefined: the process faults, or some bytes are taken for a name.
CStrFromPtr(p) ==
    IF p = NULL
    THEN {[kind |-> "fault", at |-> NULL], [kind |-> "garbage", at |-> NULL]}
    ELSE {[kind |-> "name", at |-> p]}

\* let device_name = if output_device.is_null() { None }
\*                   else { Some(CStr::from_ptr(output_device)) }
OutputDeviceName ==
    IF output_device = NULL THEN {NoName} ELSE CStrFromPtr(output_device)

\* let device_name = if input_device.is_null() { None }
\*                   else { Some(CStr::from_ptr(output_device)) }
InputDeviceName ==
    IF input_device = NULL THEN {NoName} ELSE CStrFromPtr(output_device)

\* Stream::new called with any parameters and device selectors, after the
\* Stream is built and the mainloop lock taken
ConnectInit ==
    /\ output_stream_params \in ParamChoices
    /\ input_stream_params \in ParamChoices
    /\ output_device \in 0..MaxDevices
    /\ input_device \in 0..MaxDevices
    /\ output_stream = "null"
    /\ input_stream = "null"
    /\ drain_timer = NULL
    /\ output_sample_spec = DefaultSpec
    /\ input_sample_spec = DefaultSpec
    /\ shutdown = FALSE
    /\ state = STATE_ERROR
    /\ pa_out = NoStream
    /\ pa_in = NoStream
    /\ op = NoOp
    /\ lock = "app"
    /\ deferred = 0
    /\ timers = {}
    /\ next_timer = 1
    /\ app = [pc |-> "idle", r |-> TRUE, err |-> OK,
              is_cork |-> FALSE, notify |-> FALSE,
              cork_ret |-> "none", destroy_ret |-> "none"]
    /\ loop = LoopIdle
    /\ reports = <<>>
    /\ calls = <<>>
    /\ last = Obs("app", "lock", {}, TRUE)
    /\ volume = PULSE_NO_GAIN
    /\ produced = <<>>
    /\ buffer = <<>>
    /\ latency_frames = ToU32(0)
    /\ battr = NoAttr
    /\ can_balance = FALSE
    /\ panning_ret = "none"
    /\ requests = <<>>
    /\ connects = <<>>
    /\ in_thread = FALSE
    /\ position_ret = "none"
    /\ calc_pc = "new_out"

CalcInit == ConstructedInit \/ ConnectInit

\* what the setup of the two streams leaves alone
connfixed == <<params, drain_timer, shutdown, state, op, deferred, timers,
               next_timer, reports, calls, last, gainvars, battrvars, panvars,
               output_device, input_device, posvars>>

\* "Setup output stream" with the device selector: stream_init, callbacks,
\* device_name, connect_playback(device_name, ..)
ConnectPlayback ==
    /\ calc_pc = "new_out"
    /\ IF output_stream_params = NoParams
       THEN /\ calc_pc' = "new_in"
            /\ UNCHANGED <<output_stream, output_sample_spec, pa_out, lock,
                           app, loop, connects>>
       ELSE \E created \in BOOLEAN, device_name \in OutputDeviceName :
            IF StreamInit(output_stream_params, created) # OK
            THEN /\ lock' = "free"
                 /\ calc_pc' = "new_failed"
                 /\ UNCHANGED <<output_stream, output_sample_spec, pa_out,
                                app, loop, connects>>
            ELSE IF device_name.kind = "fault"
            THEN /\ Abort
                 /\ calc_pc' = "aborted"
                 /\ UNCHANGED <<output_stream, output_sample_spec, pa_out,
                                connects>>
            ELSE /\ output_sample_spec' =
                        [format |-> ToPulseFormat(output_stream_params.format),
                         channels |-> output_stream_params.channels]
                 /\ pa_out' = Connecting
                 /\ connects' = Append(connects, [dir |-> "playback",
                                                  device |-> device_name])
                 /\ output_stream' = "set"
                 /\ calc_pc' = "new_in"
                 /\ UNCHANGED <<lock, app, loop>>
    /\ UNCHANGED <<input_stream, input_sample_spec, pa_in>>
    /\ UNCHANGED connfixed

\* "Set up input stream" with the device selector: stream_init, callbacks,
\* device_name, connect_record(device_name, ..)
ConnectRecord ==
    /\ calc_pc = "new_in"
    /\ IF input_stream_params = NoParams
       THEN /\ calc_pc' = "new_wait"
            /\ UNCHANGED <<input_stream, input_sample_spec, pa_in, lock,
                           app, loop, connects>>
       ELSE \E created \in BOOLEAN, device_name \in InputDeviceName :
            IF StreamInit(input_stream_params, created) # OK
            THEN /\ lock' = "free"
                 /\ calc_pc' = "new_failed"
                 /\ UNCHANGED <<input_stream, input_sample_spec, pa_in,
                                app, loop, connects>>
            ELSE IF device_name.kind = "fault"
            THEN /\ Abort
                 /\ calc_pc' = "aborted"
                 /\ UNCHANGED <<input_stream, input_sample_spec, pa_in,
                                connects>>
            ELSE /\ input_sample_spec' =
                        [format |-> ToPulseFormat(input_stream_params.format),
                         channels |-> input_stream_params.channels]
                 /\ pa_in' = Connecting
                 /\ connects' = Append(connects, [dir |-> "record",
                                                  device |-> device_name])
                 /\ input_stream' = "set"
                 /\ calc_pc' = "new_wait"
                 /\ UNCHANGED <<lock, app, loop>>
    /\ UNCHANGED <<output_stream, output_sample_spec, pa_out>>
    /\ UNCHANGED connfixed

CalcNext ==
    \/ SetVolume \/ ScaleRegion \/ NewBufferAttr
    \/ SetPanning \/ ServerAck
    \/ ConnectPlayback \/ ConnectRecord
    \/ Position

CalcSpec == CalcInit /\ [][CalcNext]_vars

(* =============================== claims ================================= *)

IsPrefix(s, t) == Len(s) <= Len(t) /\ SubSeq(t, 1, Len(s)) = s

\* the entries of sequence s other than x, in order
RECURSIVE Without(_, _)
Without(s, x) ==
    IF s = <<>> THEN <<>>
    ELSE IF Head(s) = x THEN Without(Tail(s), x)
    ELSE <<Head(s)>> \o Without(Tail(s), x)

Count(s, x) == Cardinality({i \in 1..Len(s) : s[i] = x})

\* the engine was constructed, and start and then stop are all that was
\* called on it so far (the second possibly not yet)
FreshStartStop == Len(calls) >= 1 /\ IsPrefix(calls, <<"start", "stop">>)

\* stop has returned from the call that followed start
StopReturned == calls = <<"start", "stop">> /\ app.pc = "idle"

\* the drain timers armed so far
TimersArmed == next_timer - 1

C2_AtMostOneDrainTimer == Cardinality(timers) <= 1

\* C3: Drained is reported only by a drain timer that fired, and a drain
\* timer is armed only when the data callback returned fewer frames than it
\* was offered: the Drained reports never outnumber the timers armed and no
\* longer outstanding, and the step that arms a timer saw 0 <= got < frames.
C3_DrainedOnlyByDrainTimer ==
    /\ Count(reports, STATE_DRAINED) + Cardinality(timers) <= TimersArmed
    /\ (last.kind = "drained_cb") = (last.cb = "state" /\ state = STATE_DRAINED)
    /\ ("drain_timer" \in last.wrote /\ last.kind # "drained_cb") =>
          /\ last.got >= 0
          /\ last.got < last.frames
          /\ drain_timer \in timers

\* a drain timer has just fired and reported Drained
C3_Witness ==
    /\ last.kind = "drained_cb"
    /\ reports[Len(reports)] = STATE_DRAINED
    /\ TimersArmed >= 1

\* an I/O event is dispatched: write-ready, read-ready or the deferred preroll
IOEvent == WriteReady \/ ReadReady \/ Preroll

\* C4: while shutdown is set, a write-ready, read-ready or preroll event changes
\* nothing of the engine, the transports or the timers and enters no
\* callback; and every step that enters the data callback finds shutdown
\* false and leaves it false.
C4_ShutdownStopsCallbacks ==
    [][ /\ (shutdown /\ IOEvent) =>
              /\ UNCHANGED <<stream, server, timers, next_timer, loop, reports>>
              /\ last'.cb = "none"
        /\ last'.cb = "data" => (~shutdown /\ ~shutdown')
      ]_vars

\* a write-ready event on a started stream did nothing because of shutdown
C4_Witness ==
    /\ shutdown
    /\ state = STATE_STARTED
    /\ input_stream = "null"
    /\ last.kind = "write_data_noop"

\* the steps in which a data callback returned to the write path
WpReturnKinds == {"wp_negative", "wp_short", "wp_full", "wp_full_done"}

\* C5 as stated: after a negative return shutdown is set and no byte of the
\* request has been committed to the output transport.
C5_NothingCommitted ==
    last.kind = "wp_negative" => (shutdown /\ last.committed = 0)

\* C5 amended: after a negative return the write path has returned with
\* shutdown set, no drain timer armed and the request unfinished, and nothing
\* of the cancelled grant is committed: the bytes committed are exactly those
\* of the earlier grants of the request.
C5_NegativeCancelsGrant ==
    (last.kind \in WpReturnKinds /\ last.got < 0) =>
        /\ last.kind = "wp_negative"
        /\ shutdown
        /\ loop.pc \in {"idle", "rd_check"}
        /\ last.cb = "none"
        /\ "drain_timer" \notin last.wrote
        /\ last.towrite > 0
        /\ last.committed = last.nbytes - last.towrite

\* a negative return on a later grant: the earlier grant's bytes are committed
C5_Witness ==
    /\ last.kind = "wp_negative"
    /\ last.committed > 0
    /\ shutdown

\* C6: in full duplex, the bytes read_data has forwarded to the write path in
\* an event are the input frames of its data fragments times the output frame
\* size, and each data callback is offered input that lies inside the
\* fragment: read offset plus frames offered times the input frame size is at
\* most the fragment's size.
C6_DuplexAccounting ==
    /\ (loop.pc \in {"cb", "rd_check"} /\ output_stream # "null"
            /\ input_stream # "null") =>
          loop.fwd_bytes = loop.fwd_frames * FrameSize(output_sample_spec)
    /\ (loop.pc = "cb" /\ loop.has_input) =>
          loop.read_offset
            + (loop.size \div FrameSize(output_sample_spec))
                * FrameSize(input_sample_spec) <= loop.read_size

\* a later grant of a later fragment, with input and output frame sizes that
\* differ
C6_Witness ==
    /\ loop.pc = "cb"
    /\ loop.has_input
    /\ loop.read_offset > 0
    /\ FrameSize(input_sample_spec) # FrameSize(output_sample_spec)
    /\ loop.fwd_frames * FrameSize(input_sample_spec) > loop.read_size

\* C7 as stated: every preroll event that is dispatched runs the write path.
C7_EveryPrerollRunsWritePath == last.kind # "preroll_noop"

\* C7 amended: start schedules exactly one deferred preroll event on an
\* output-only engine and none on an engine with an input stream; nothing
\* else schedules one; each event is dispatched once, enters the data
\* callback only if shutdown is false then, and does nothing if it is set.
C7_OnePrerollPerStart ==
    [][ /\ (app.pc = "start_preroll" /\ app'.pc = "idle") =>
              deferred' = deferred +
                  (IF output_stream # "null" /\ input_stream = "null" THEN 1 ELSE 0)
        /\ deferred' > deferred => app.pc = "start_preroll"
        /\ deferred' < deferred =>
              /\ deferred' = deferred - 1
              /\ last'.who = "loop"
              /\ last'.cb = "data" => ~shutdown
              /\ shutdown => (last'.kind = "preroll_noop" /\ UNCHANGED <<stream, loop>>)
      ]_vars

\* a preroll event was dispatched after shutdown was set, and did nothing
C7_Witness ==
    /\ last.kind = "preroll_noop"
    /\ shutdown
    /\ Count(calls, "start") >= 1

\* C8: every write of shutdown, drain_timer or state is made by a thread
\* that holds the mainloop lock.
C8_WritesUnderLock == last.wrote # {} => last.locked

\* C9: the application thread is never inside the state callback while the
\* mainloop thread is inside, or enters, an application callback.
C9_NoConcurrentCallbacks ==
    ~ /\ app.pc = "state_cb"
      /\ \/ loop.pc \in {"cb", "rcb"}
         \/ (last.who = "loop" /\ last.cb # "none")

\* Stream::new has returned an error (and the Box is being or was dropped)
NewFailed ==
    app.pc \in {"new_drop", "failed"} \/ app.destroy_ret = "failed"

\* the direction was requested with a sample format that has no wire format
Unsupported(stream_params) ==
    stream_params # NoParams /\ stream_params.format \notin SupportedFormats

\* nothing is left of a pulse::Stream that was created
TornDown(pa) ==
    pa.st # "none" => (~pa.state_cb /\ ~pa.io_cb /\ ~pa.connected)

\* C10: when Stream::new has returned an error, the error is InvalidFormat
\* for an unsupported output encoding (and only for an unsupported
\* encoding), every sub-stream that was created has its callbacks cleared
\* and is disconnected, and both handles are null; an engine reaches the
\* caller only with every requested sub-stream Ready.
C10_FailedConstructionTornDown ==
    /\ NewFailed =>
          /\ app.err \in {ERROR, ERROR_INVALID_FORMAT}
          /\ Unsupported(output_stream_params) => app.err = ERROR_INVALID_FORMAT
          /\ app.err = ERROR_INVALID_FORMAT =>
                (Unsupported(output_stream_params) \/ Unsupported(input_stream_params))
          /\ output_stream = "null" /\ input_stream = "null"
          /\ TornDown(pa_out) /\ TornDown(pa_in)
          /\ calls = <<>>
    /\ (app.pc = "idle" \/ calls # <<>>) =>
          /\ ~Unsupported(output_stream_params)
          /\ ~Unsupported(input_stream_params)
          /\ output_stream_params # NoParams \/ input_stream_params # NoParams
          /\ app.err = OK
    /\ (app.pc = "idle" /\ calls = <<>>) =>
          /\ (output_stream_params # NoParams) =
                (output_stream # "null" /\ pa_out.st = "ready")
          /\ (input_stream_params # NoParams) =
                (input_stream # "null" /\ pa_in.st = "ready")

\* the input encoding is unsupported: the output stream that was already
\* created and connected is torn down, and the error is InvalidFormat
C10_Witness ==
    /\ app.pc = "failed"
    /\ app.err = ERROR_INVALID_FORMAT
    /\ pa_out.st = "terminated"
    /\ ~pa_out.state_cb /\ ~pa_out.io_cb /\ ~pa_out.connected

\* the steps in which an I/O callback failed and set shutdown: a negative
\* return in the write path, a negative or mismatched return on an
\* input-only stream
IoFailureKinds == {"wp_negative", "read_cb_failed"}

\* C11: a failure inside an I/O callback that set shutdown is followed by a
\* state callback that reports Error.
C11_FailureLeadsToError ==
    (last.kind \in IoFailureKinds) ~> (Count(reports, STATE_ERROR) > 0)

\* the application thread is inside a destroy that follows a completed one:
\* the destroy run by Drop after Stream::new's error path ran destroy
SecondDestroy ==
    /\ app.destroy_ret = "failed"
    /\ app.pc \in {"cork_lock", "cork_out_w", "cork_in_w", "cork_notify",
                   "state_cb", "destroy_body"}

\* C12: every step of a destroy on an engine that destroy has already torn
\* down leaves the engine's fields, the transports, the pending operation,
\* the timers and the deferred events as they are, and enters no
\* application callback.
C12_TeardownIdempotent ==
    [][ (SecondDestroy /\ app' # app /\ last'.who = "app") =>
            /\ UNCHANGED <<stream, server, timers, next_timer, deferred,
                           reports>>
            /\ last'.cb = "none"
            /\ last'.wrote = {}
      ]_vars

\* the second destroy has finished on an engine whose two sub-streams the
\* first one disconnected
C12_Witness ==
    /\ app.pc = "failed"
    /\ last.kind = "destroy"
    /\ pa_out.st = "terminated"
    /\ pa_in.st = "terminated"

\* start has not been called yet
BeforeFirstStart == Count(calls, "start") = 0

\* C13: until the first call of start, a sub-stream that is connected is
\* corked, and the data callback is neither in progress nor entered by any
\* step, whatever read-ready and write-ready events arrive (and whether or
\* not stop is called first).
C13_BornCorkedAndSilent ==
    BeforeFirstStart =>
        /\ pa_out.connected => pa_out.corked
        /\ pa_in.connected => pa_in.corked
        /\ loop.pc \notin {"cb", "rcb"}
        /\ last.cb # "data"

\* a write request arrived on the constructed duplex engine before start,
\* and write_data returned at once
C13_Witness ==
    /\ BeforeFirstStart
    /\ app.pc = "idle"
    /\ ~shutdown
    /\ pa_out.st = "ready" /\ pa_in.st = "ready"
    /\ last.kind = "write_data_noop"

\* the region written is one of 16-bit integer samples
IsS16 == output_sample_spec.format \in {"S16BE", "S16LE"}

\* C14: the 16-bit samples handed to the transport are the produced samples
\* times the gain, the product truncated to an integer; with the gain at
\* PULSE_NO_GAIN they are the produced samples.
C14_GainScalesSamples ==
    (calc_pc = "gain_done" /\ IsS16) =>
        IF volume = PULSE_NO_GAIN
        THEN buffer = produced
        ELSE \A i \in DOMAIN buffer :
                buffer[i] = ScaleS16_ByFraction(produced[i], volume)

\* C15: set_panning on an engine without output stream, or whose channel
\* map cannot balance, returns ERROR and makes no request to the server; it
\* makes a request only with an output stream whose map can balance, and
\* then returns OK; it returns with the mainloop lock given up.
C15_PanningRefused ==
    /\ requests # <<>> => (output_stream # "null" /\ can_balance)
    /\ calc_pc = "panning_done" =>
          /\ lock = "free"
          /\ panning_ret = IF output_stream = "null" \/ ~can_balance THEN ERROR ELSE OK

\* set_panning returned ERROR on an engine whose output stream's channel map
\* cannot balance
C15_Witness ==
    /\ calc_pc = "panning_done"
    /\ output_stream # "null"
    /\ ~can_balance
    /\ panning_ret = ERROR
    /\ requests = <<>>

\* C16: the target length is latency_frames times the frame size, and the
\* minimum request and the fragment size are both a quarter of it.
C16_BufferingPolicy ==
    calc_pc = "battr_done" =>
        /\ battr.tlength = MulExact(latency_frames, FrameSize(output_sample_spec))
        /\ battr.minreq = DivU32(battr.tlength, 4)
        /\ battr.fragsize = battr.minreq

\* the application thread is in the cork of stop, past the point where the
\* cork requests are made
StopCorked ==
    /\ app.is_cork /\ app.notify /\ app.cork_ret = "idle"
    /\ app.pc \in {"cork_out_w", "cork_in_w", "cork_notify", "state_cb"}

\* stop has just returned
StopJustReturned ==
    /\ app.pc = "idle"
    /\ last.kind = "state_cb_return"
    /\ app.is_cork /\ app.cork_ret = "idle"

\* C17: while stop makes its cork requests and reports Stopped no drain timer
\* is outstanding, and when stop returns shutdown is true, the drain timer
\* handle is null and no drain timer is outstanding.
C17_StopWaitsForDrain ==
    /\ StopCorked => timers = {}
    /\ StopJustReturned => (shutdown /\ drain_timer = NULL /\ timers = {})

\* the application thread is inside stop: waiting for the drain to end, or in
\* stop's cork
InStop ==
    \/ app.pc = "stop_wait_w"
    \/ /\ app.is_cork /\ app.notify /\ app.cork_ret = "idle"
       /\ app.pc \in {"cork_lock", "cork_out_w", "cork_in_w", "cork_notify",
                      "state_cb"}

\* C18: a stop that has been called returns: the application thread, once
\* inside stop, is back in the caller at some later time.
C18_StopReturns == InStop ~> (app.pc = "idle")

\* the steps in which the write path returned without entering the loop or
\* after its last turn
WpDoneKinds == {"write_data_done", "preroll_done", "read_data_done",
                "wp_full_done"}

\* C19: while the data callback is in progress the bytes still to write are
\* positive, the grant is a non-empty part of them, and what is committed is
\* the request less what is still to write; each further turn of the loop
\* has strictly less to write (so the turns of one request are at most its
\* frames); and when the write path returns, the bytes committed are the
\* bytes requested or shutdown is true.
C19_WritePathCompletes ==
    [][ /\ loop.pc = "cb" =>
              /\ loop.towrite > 0
              /\ loop.size > 0 /\ loop.size <= loop.towrite
              /\ loop.committed = loop.nbytes - loop.towrite
        /\ (loop.pc = "cb" /\ loop'.pc = "cb" /\ last'.who = "loop") =>
              /\ loop'.nbytes = loop.nbytes
              /\ loop'.towrite < loop.towrite
        /\ (loop.pc = "cb" /\ loop'.pc # "cb") =>
              (last'.committed = last'.nbytes \/ shutdown')
        /\ last'.kind \in WpDoneKinds =>
              (last'.committed = last'.nbytes /\ last'.towrite = 0)
      ]_vars

\* a request satisfied over several grants has returned, all of it committed
C19_Witness ==
    /\ last.kind = "wp_full_done"
    /\ last.committed = last.nbytes
    /\ last.frames * FrameSize(output_sample_spec) < last.nbytes
    /\ ~shutdown

\* the engine has an input stream only
InputOnly == input_stream # "null" /\ output_stream = "null"

\* C20: on an input-only engine the return of the data callback is a failure
\* exactly when it is negative or differs from the frames offered; a failure
\* sets shutdown and ends read_data at once, without dropping the fragment
\* and without another data callback in the event; otherwise the fragment is
\* dropped, shutdown is left alone, and read_data goes on with the next
\* fragment if the record buffer holds one, and returns if it holds none.
C20_InputOnlyFailureStops ==
    [][ /\ loop.pc = "rcb" /\ last'.who = "loop" =>
              /\ last'.kind \in {"read_cb_failed", "read_cb_ok"}
              /\ (last'.kind = "read_cb_failed") =
                    (last'.got < 0 \/ last'.got # last'.frames)
              /\ last'.kind = "read_cb_failed" =>
                    /\ shutdown'
                    /\ loop'.pc = "idle" /\ lock' = "free"
                    /\ ~last'.dropped
              /\ last'.kind = "read_cb_ok" =>
                    /\ UNCHANGED shutdown
                    /\ last'.dropped
                    /\ loop'.pc = "rd_check" /\ loop'.left = loop.left
        /\ (loop.pc = "rd_check" /\ InputOnly /\ last'.who = "loop") =>
              IF loop.left > 0
              THEN /\ loop'.left = loop.left - 1
                   /\ loop'.pc \in {"rcb", "rd_check"}
                   /\ (loop'.pc = "rcb") = (last'.cb = "data")
              ELSE loop'.pc = "idle" /\ last'.cb = "none"
      ]_vars

\* the data callback returned a frame count other than the frames offered
\* while the record buffer held a further fragment, and read_data ended
C20_Witness ==
    /\ last.kind = "read_cb_failed"
    /\ last.got >= 0
    /\ last.left > 0
    /\ shutdown
    /\ loop.pc = "idle"

\* C21: a write-ready event enters the data callback, through the write
\* path with no input data and the bytes the server asked for, exactly when
\* shutdown is false, the state is Started and there is no input stream; in
\* every other case it changes nothing of the engine, the transports, the
\* timers or the deferred events and enters no callback.
C21_WriteReadyGuard ==
    [][ WriteReady =>
          IF ~shutdown /\ state = STATE_STARTED /\ input_stream = "null"
          THEN /\ last'.cb = "data"
               /\ loop'.pc = "cb"
               /\ loop'.entry = "write"
               /\ ~loop'.has_input
               /\ loop'.nbytes > 0 /\ loop'.towrite = loop'.nbytes
               /\ UNCHANGED <<stream, server, timers, next_timer, deferred,
                              reports>>
          ELSE /\ last'.cb = "none"
               /\ UNCHANGED <<stream, server, timers, next_timer, deferred,
                              loop, lock, reports>>
      ]_vars

\* a write-ready event on a started full-duplex engine did nothing
C21_Witness ==
    /\ last.kind = "write_data_noop"
    /\ ~shutdown
    /\ state = STATE_STARTED
    /\ input_stream # "null"
    /\ output_stream # "null"

\* the name a connect request must carry for device selector sel
OwnDeviceName(sel) ==
    IF sel = NULL THEN NoName ELSE [kind |-> "name", at |-> sel]

\* C22: construction with any device selectors does not fault, and every
\* connect request carries the name its own direction's selector points at
\* (the output selector for playback, the input selector for record), and
\* carries no name exactly when that selector is null.
C22_OwnDeviceSelector ==
    /\ calc_pc # "aborted"
    /\ \A i \in 1..Len(connects) :
          connects[i].device =
              OwnDeviceName(IF connects[i].dir = "playback"
                            THEN output_device ELSE input_device)

\* C23: a data callback that wrote fewer frames than it was offered is
\* followed, unless the application tears the engine down, by a state in
\* which no drain timer is outstanding and Drained has been reported once
\* for every drain so far (once for every timer armed).
C23_ShortWriteDrainsOnce ==
    (last.kind = "wp_short") ~>
        \/ Count(calls, "destroy") > 0
        \/ /\ timers = {}
           /\ Count(reports, STATE_DRAINED) = TimersArmed

\* the teardown of the engine has completed: destroy returned to Drop, or to
\* Stream::new's error path and the Drop that followed it
TeardownComplete == app.pc \in {"destroyed", "failed"}

\* C24: once teardown has completed both stream handles are null and no
\* drain timer is outstanding, and no later step enters an application
\* callback, reports a state or touches a sub-stream that is gone (which
\* aborts the process): a deferred preroll or a drain timer still pending
\* does nothing.
C24_TeardownIsFinal ==
    [][ TeardownComplete =>
            /\ output_stream = "null"
            /\ input_stream = "null"
            /\ timers = {}
            /\ last'.cb = "none"
            /\ loop'.pc # "aborted"
            /\ UNCHANGED reports
      ]_vars

\* C25: an operation that has returned (position, set_panning, set_volume,
\* a construction that failed in stream_init) has given up the mainloop
\* lock it took: the lock is free, or is still with the mainloop thread when
\* the operation was called on that thread.
C25_LockReleasedOnReturn ==
    calc_pc \in {"position_done", "panning_done", "gain", "new_failed"} =>
        lock = IF in_thread THEN "loop" ELSE "free"

\* C26: the first start reports Started before any data callback it causes:
\* as long as Started has not been reported, no read-ready, write-ready or
\* preroll event has the data callback in progress, on an output-only, an
\* input-only or a full-duplex engine.
C26_StartedBeforeData ==
    Count(reports, STATE_STARTED) = 0 =>
        /\ loop.pc \notin {"cb", "rcb"}
        /\ last.cb # "data"

====
